---- MODULE Spec2Model ----
(***************************************************************************)
(* Model of ipywidgets/__init__.py (comm-target registration) and of       *)
(* ipywidgets/widgets/widget_output.py (the Output widget: capture scope,  *)
(* clear_output, capture decorator, append_* methods).                     *)
(*                                                                         *)
(* The interpreter is single threaded, so the program is a stack of call   *)
(* frames.  Each frame is one activation of a `with self:` block           *)
(* (kinds "with", "clear", "func") or of the wrapper `inner` ("inner");    *)
(* its pc is the next statement of the source it has to run.               *)
(***************************************************************************)
EXTENDS Integers, Sequences, FiniteSets, TLC

\* ---- bounds of the model ------------------------------------------------
MaxDepth == 3      \* call frames alive at once
MaxRecords == 2    \* records alive at once, buffered in a stream or in outputs
MaxReg == 3        \* comm-target registrations kept in the registry

\* ---- input domains ------------------------------------------------------
Hosts == {"none", "nokernel", "noheader", "full"}
MsgIds == {"m1", "m2"}
Texts == {"a", "b"}
DisplayObjects == {"markdown", "image"}
Exceptions == {"ValueError"}
Values == {"v1", "v2"}
ArgLists == {"args1", "args2"}
Kernels == {"hostKernel", "otherKernel"}

VARIABLES
    host,       \* what get_ipython() returns in this process
    parent,     \* msg_id of kernel._parent_header (request being executed)
    imported,   \* the package's import-time hook has run
    registry,   \* registrations made on comm managers, in order
    lastReg,    \* outcome of the last registration call
    msg_id,     \* Output.msg_id
    outputs,    \* Output.outputs
    stale,      \* for each record of outputs: its content was emitted before
                \* the last clear_output() that ran inside a capture scope
    stdoutBuf,  \* text written to sys.stdout and not yet flushed
    stderrBuf,  \* text written to sys.stderr and not yet flushed
    stack       \* call frames, innermost last

vars == <<host, parent, imported, registry, lastReg, msg_id, outputs, stale,
          stdoutBuf, stderrBuf, stack>>

regVars == <<registry, lastReg>>
bufVars == <<outputs, stale, stdoutBuf, stderrBuf>>

\* ---- the host (IPython) as the code probes it ---------------------------
\* `if ip` / `ip is None`
HasInterpreter == host # "none"
\* hasattr(ip, 'kernel')
HasKernel == host \in {"noheader", "full"}
\* hasattr(ip.kernel, '_parent_header')
HasParentHeader == host = "full"

\* ---- output records -----------------------------------------------------
StreamRecord(stream_name, text) ==
    [output_type |-> "stream", name |-> stream_name, text |-> text]

\* InteractiveShell.instance().display_formatter.format(display_object)
FormatData(obj) ==
    IF obj = "markdown" THEN {"text/plain", "text/markdown"}
    ELSE {"text/plain", "image/png"}
FormatMetadata(obj) ==
    IF obj = "markdown" THEN {} ELSE {"image/png"}

DisplayRecord(obj) ==
    [output_type |-> "display_data", data |-> FormatData(obj),
     metadata |-> FormatMetadata(obj)]

\* mutant of AppendStreamOutput: the new record is put first
AppendStreamOutput_Prepends(outs, text, stream_name) ==
    <<StreamRecord(stream_name, text)>> \o outs

\* self.outputs += ({...},)  in _append_stream_output
AppendStreamOutput(outs, text, stream_name) ==
    outs \o <<StreamRecord(stream_name, text)>>

\* self.outputs += ({...},)  in append_display_data
AppendDisplayOutput(outs, obj) ==
    outs \o <<DisplayRecord(obj)>>

\* ---- frames -------------------------------------------------------------
NewFrame(kind, clr, args) ==
    [kind |-> kind,
     pc |-> IF kind = "inner" THEN "check" ELSE "enter_flush",
     exc |-> "None",     \* exception the body ended with
     ret |-> "None",     \* value the body returned
     res |-> "none",     \* how the activation ended: value returned or exception
     clr |-> clr,        \* inner: the decorator's clear_output flag
     nclr |-> 0,         \* inner: clear operations this invocation has performed
     args |-> args,      \* inner: the caller's arguments
     got |-> "none",     \* func: the arguments func received
     removed |-> 0,      \* clear: records the clear request took out of outputs
     fl |-> 0,           \* _flush() calls this activation has made
     rend |-> 0]         \* showtraceback calls this activation has made

Top == stack[Len(stack)]
Rest == SubSeq(stack, 1, Len(stack) - 1)
SetTop(f) == [stack EXCEPT ![Len(stack)] = f]

\* user code is running: a notebook cell at top level, the body of a
\* `with out:` block, or the body of a decorated function
UserPos ==
    /\ imported
    /\ \/ stack = <<>>
       \/ /\ stack # <<>>
          /\ Top.kind \in {"with", "func"}
          /\ Top.pc = "body"

\* the `with self:` blocks that have been entered and not yet left
OpenScopes ==
    {i \in DOMAIN stack : /\ stack[i].kind # "inner"
                          /\ stack[i].pc \notin {"returned", "raised"}}

Init ==
    /\ host \in Hosts
    /\ parent = "m1"
    /\ imported = FALSE
    /\ registry = <<>>
    /\ lastReg = [op |-> "none", arg |-> "none", outcome |-> "none", added |-> 0]
    /\ msg_id = ""
    /\ outputs = <<>>
    /\ stale = <<>>
    /\ stdoutBuf = <<>>
    /\ stderrBuf = <<>>
    /\ stack = <<>>

\* ---- package import and registration (ipywidgets/__init__.py) ------------
Registration(kernel) ==
    [kernel |-> kernel, target |-> "ipython.widget",
     handler |-> "Widget.handle_comm_opened"]

\* register_comm_target(kernel): the registry it leaves and how it ends.
\* With kernel None, line 23 evaluates get_ipython().kernel and binds it to
\* `ip`; line 24 then evaluates `kernel.comm_manager` on the argument.
RegisterResult(kernel) ==
    LET lookupRaises == kernel = "None" /\ ~HasKernel
        target == kernel
    IN IF lookupRaises \/ target = "None"
       THEN [reg |-> registry, outcome |-> "AttributeError"]
       ELSE [reg |-> Append(registry, Registration(target)), outcome |-> "ok"]

\* load_ipython_extension(ip); ipKernel is ip.kernel, "absent" when ip has
\* no such attribute
LoadResult(ipKernel) ==
    IF ipKernel = "absent"
    THEN [reg |-> registry, outcome |-> "ok"]
    ELSE RegisterResult(ipKernel)

HostKernelAttr == IF HasKernel THEN "hostKernel" ELSE "absent"

\* _handle_ipython(), run once when the package is imported
HandleIPython ==
    /\ ~imported
    /\ imported' = TRUE
    /\ LET r == IF ~HasInterpreter
                THEN [reg |-> registry, outcome |-> "ok"]
                ELSE LoadResult(HostKernelAttr)
       IN /\ registry' = r.reg
          /\ lastReg' = [op |-> "import", arg |-> "none", outcome |-> r.outcome,
                         added |-> Len(r.reg) - Len(registry)]
    /\ UNCHANGED <<host, parent, msg_id, bufVars, stack>>

LoadIPythonExtension(ipKernel) ==
    /\ imported /\ stack = <<>>
    /\ Len(registry) < MaxReg
    /\ LET r == LoadResult(ipKernel)
       IN /\ registry' = r.reg
          /\ lastReg' = [op |-> "load", arg |-> ipKernel, outcome |-> r.outcome,
                         added |-> Len(r.reg) - Len(registry)]
    /\ UNCHANGED <<host, parent, imported, msg_id, bufVars, stack>>

RegisterCommTarget(kernel) ==
    /\ imported /\ stack = <<>>
    /\ Len(registry) < MaxReg
    /\ LET r == RegisterResult(kernel)
       IN /\ registry' = r.reg
          /\ lastReg' = [op |-> "register", arg |-> kernel,
                         outcome |-> r.outcome,
                         added |-> Len(r.reg) - Len(registry)]
    /\ UNCHANGED <<host, parent, imported, msg_id, bufVars, stack>>

\* the kernel starts executing the next request
NewRequest ==
    /\ imported /\ stack = <<>>
    /\ HasParentHeader
    /\ \E m \in MsgIds \ {parent} : parent' = m
    /\ UNCHANGED <<host, imported, regVars, msg_id, bufVars, stack>>

\* ---- the host's streams and the front end --------------------------------
\* A message published while the request `parent` runs is routed to the
\* widget when the widget's msg_id names that request.
Captured == msg_id # "" /\ msg_id = parent

Stale1(buf) == [i \in DOMAIN buf |-> buf[i].stale]
MarkStale(buf) ==
    IF buf = <<>> THEN <<>>
    ELSE [i \in DOMAIN buf |-> [buf[i] EXCEPT !.stale = TRUE]]

\* room for one more record in the model
Room == Len(outputs) + Len(stdoutBuf) + Len(stderrBuf) < MaxRecords

RECURSIVE StreamRecords(_, _)
StreamRecords(buf, stream_name) ==
    IF buf = <<>> THEN <<>>
    ELSE <<StreamRecord(stream_name, Head(buf).text)>>
         \o StreamRecords(Tail(buf), stream_name)

\* sys.stdout.flush(); sys.stderr.flush()
FlushStreams ==
    /\ stdoutBuf' = <<>>
    /\ stderrBuf' = <<>>
    /\ IF Captured
       THEN /\ outputs' = outputs \o StreamRecords(stdoutBuf, "stdout")
                                  \o StreamRecords(stderrBuf, "stderr")
            /\ stale' = stale \o Stale1(stdoutBuf) \o Stale1(stderrBuf)
       ELSE UNCHANGED <<outputs, stale>>

\* the host flushing its streams on its own schedule
HostFlush ==
    /\ imported
    /\ stdoutBuf # <<>> \/ stderrBuf # <<>>
    /\ FlushStreams
    /\ UNCHANGED <<host, parent, imported, regVars, msg_id, stack>>

\* mutant of EnterFlush: __enter__ without its self._flush()
EnterFlush_Skipped ==
    /\ stack # <<>>
    /\ Top.kind # "inner" /\ Top.pc = "enter_flush"
    /\ stack' = SetTop([Top EXCEPT !.pc = "enter_set", !.fl = @ + 1])
    /\ UNCHANGED <<host, parent, imported, regVars, msg_id, bufVars>>

\* ---- Output.__enter__ ----------------------------------------------------
\* self._flush()
EnterFlush ==
    /\ stack # <<>>
    /\ Top.kind # "inner" /\ Top.pc = "enter_flush"
    /\ FlushStreams
    /\ stack' = SetTop([Top EXCEPT !.pc = "enter_set", !.fl = @ + 1])
    /\ UNCHANGED <<host, parent, imported, regVars, msg_id>>

\* ip = get_ipython(); if ip and hasattr(...) and hasattr(...): self.msg_id = ...
EnterSetMsgId ==
    /\ stack # <<>>
    /\ Top.kind # "inner" /\ Top.pc = "enter_set"
    /\ msg_id' = IF HasInterpreter /\ HasKernel /\ HasParentHeader
                 THEN parent ELSE msg_id
    /\ stack' = SetTop([Top EXCEPT !.pc = "body"])
    /\ UNCHANGED <<host, parent, imported, regVars, bufVars>>


\* ---- user code -----------------------------------------------------------
\* print(text) / sys.stdout.write(text)
WriteStdout(text) ==
    /\ UserPos /\ Room
    /\ stdoutBuf' = Append(stdoutBuf, [text |-> text, stale |-> FALSE,
                                      scoped |-> OpenScopes # {}])
    /\ UNCHANGED <<host, parent, imported, regVars, msg_id, outputs, stale,
                   stderrBuf, stack>>

\* sys.stderr.write(text)
WriteStderr(text) ==
    /\ UserPos /\ Room
    /\ stderrBuf' = Append(stderrBuf, [text |-> text, stale |-> FALSE,
                                      scoped |-> OpenScopes # {}])
    /\ UNCHANGED <<host, parent, imported, regVars, msg_id, outputs, stale,
                   stdoutBuf, stack>>

\* out.append_stdout(text)
AppendStdout(text) ==
    /\ UserPos /\ Room
    /\ outputs' = AppendStreamOutput(outputs, text, "stdout")
    /\ stale' = Append(stale, FALSE)
    /\ UNCHANGED <<host, parent, imported, regVars, msg_id, stdoutBuf,
                   stderrBuf, stack>>

\* out.append_stderr(text)
AppendStderr(text) ==
    /\ UserPos /\ Room
    /\ outputs' = AppendStreamOutput(outputs, text, "stderr")
    /\ stale' = Append(stale, FALSE)
    /\ UNCHANGED <<host, parent, imported, regVars, msg_id, stdoutBuf,
                   stderrBuf, stack>>

\* out.append_display_data(display_object)
AppendDisplayData(obj) ==
    /\ UserPos /\ Room
    /\ outputs' = AppendDisplayOutput(outputs, obj)
    /\ stale' = Append(stale, FALSE)
    /\ UNCHANGED <<host, parent, imported, regVars, msg_id, stdoutBuf,
                   stderrBuf, stack>>

\* `with out:` reached in user code
EnterWith ==
    /\ UserPos /\ Len(stack) < MaxDepth
    /\ stack' = Append(stack, NewFrame("with", FALSE, "none"))
    /\ UNCHANGED <<host, parent, imported, regVars, msg_id, bufVars>>

\* out.clear_output() called from user code: `with self:` of clear_output
CallClearOutput ==
    /\ UserPos /\ Len(stack) < MaxDepth
    /\ stack' = Append(stack, NewFrame("clear", FALSE, "none"))
    /\ UNCHANGED <<host, parent, imported, regVars, msg_id, bufVars>>

\* a function decorated with out.capture(clear_output=clr) is called
CallWrapper(clr, args) ==
    /\ UserPos /\ Len(stack) + 1 < MaxDepth
    /\ stack' = Append(stack, NewFrame("inner", clr, args))
    /\ UNCHANGED <<host, parent, imported, regVars, msg_id, bufVars>>

\* the body of a `with out:` block runs to its end
BodyEnd ==
    /\ stack # <<>>
    /\ Top.kind = "with" /\ Top.pc = "body"
    /\ stack' = SetTop([Top EXCEPT !.pc = "exit_render"])
    /\ UNCHANGED <<host, parent, imported, regVars, msg_id, bufVars>>

\* the decorated function returns v
FuncReturn(v) ==
    /\ stack # <<>>
    /\ Top.kind = "func" /\ Top.pc = "body"
    /\ stack' = SetTop([Top EXCEPT !.pc = "exit_render", !.ret = v])
    /\ UNCHANGED <<host, parent, imported, regVars, msg_id, bufVars>>

\* the body of a `with out:` block or the decorated function raises e
BodyRaise(e) ==
    /\ stack # <<>>
    /\ Top.kind \in {"with", "func"} /\ Top.pc = "body"
    /\ stack' = SetTop([Top EXCEPT !.pc = "exit_render", !.exc = e])
    /\ UNCHANGED <<host, parent, imported, regVars, msg_id, bufVars>>

\* IPython.display.clear_output(*pargs, **kwargs), the body of clear_output's
\* `with self:`. The clear request is published under the running request
\* and empties the widget's buffer when the widget is capturing it.
HostClearOutput ==
    /\ stack # <<>>
    /\ Top.kind = "clear" /\ Top.pc = "body"
    /\ LET inScope == Cardinality(OpenScopes) > 1
           keep(flags) == IF inScope /\ flags # <<>>
                          THEN [i \in DOMAIN flags |-> TRUE] ELSE flags
           mark(buf) == IF inScope THEN MarkStale(buf) ELSE buf
       IN /\ IF Captured
             THEN outputs' = <<>> /\ stale' = <<>>
             ELSE outputs' = outputs /\ stale' = keep(stale)
          /\ stdoutBuf' = mark(stdoutBuf)
          /\ stderrBuf' = mark(stderrBuf)
    /\ stack' = SetTop([Top EXCEPT !.pc = "exit_render",
                                   !.removed = Len(outputs) - Len(outputs')])
    /\ UNCHANGED <<host, parent, imported, regVars, msg_id>>

\* mutant of InnerCheck: the wrapper clears whatever the flag says
InnerCheck_IgnoresFlag ==
    /\ stack # <<>>
    /\ Top.kind = "inner" /\ Top.pc = "check"
    /\ stack' = Append(SetTop([Top EXCEPT !.pc = "with", !.nclr = @ + 1]),
                       NewFrame("clear", FALSE, "none"))
    /\ UNCHANGED <<host, parent, imported, regVars, msg_id, bufVars>>

\* ---- the wrapper `inner` of Output.capture --------------------------------
\* if clear_output: self.clear_output(*outer_args, **outer_kwargs)
InnerCheck ==
    /\ stack # <<>>
    /\ Top.kind = "inner" /\ Top.pc = "check"
    /\ IF Top.clr
       THEN stack' = Append(SetTop([Top EXCEPT !.pc = "with", !.nclr = @ + 1]),
                            NewFrame("clear", FALSE, "none"))
       ELSE stack' = SetTop([Top EXCEPT !.pc = "with"])
    /\ UNCHANGED <<host, parent, imported, regVars, msg_id, bufVars>>

\* with self: ... func(*args, **kwargs)
InnerWith ==
    /\ stack # <<>>
    /\ Top.kind = "inner" /\ Top.pc = "with"
    /\ stack' = Append(SetTop([Top EXCEPT !.pc = "wait"]),
                       [NewFrame("func", FALSE, "none") EXCEPT !.got = Top.args])
    /\ UNCHANGED <<host, parent, imported, regVars, msg_id, bufVars>>

\* what `inner` hands its caller once __exit__ has returned True: the value
\* of the `return` statement, or None when the with block swallowed an
\* exception and `inner` ran off its end
WrapperResult(f) == IF f.exc = "None" THEN f.ret ELSE "None"

\* `inner` returns to its caller, or the exception __exit__ raised leaves it
InnerLeave ==
    /\ stack # <<>>
    /\ Top.kind = "inner" /\ Top.pc \in {"returned", "raised"}
    /\ stack' = IF Top.pc = "returned" \/ Rest = <<>>
                THEN Rest
                ELSE [Rest EXCEPT ![Len(Rest)] =
                         [@ EXCEPT !.pc = "exit_render", !.exc = Top.res]]
    /\ UNCHANGED <<host, parent, imported, regVars, msg_id, bufVars>>

\* ---- Output.__exit__ -----------------------------------------------------
\* ip = get_ipython(); if etype is not None: ip.showtraceback(...)
ExitRender ==
    /\ stack # <<>>
    /\ Top.kind # "inner" /\ Top.pc = "exit_render"
    /\ stack' = SetTop(
          IF Top.exc = "None" THEN [Top EXCEPT !.pc = "exit_flush"]
          ELSE IF HasInterpreter
               THEN [Top EXCEPT !.pc = "exit_flush", !.rend = @ + 1]
               \* None has no attribute showtraceback: __exit__ raises
               ELSE [Top EXCEPT !.pc = "raised", !.res = "AttributeError"])
    /\ UNCHANGED <<host, parent, imported, regVars, msg_id, bufVars>>

\* self._flush()
ExitFlush ==
    /\ stack # <<>>
    /\ Top.kind # "inner" /\ Top.pc = "exit_flush"
    /\ FlushStreams
    /\ stack' = SetTop([Top EXCEPT !.pc = "exit_reset", !.fl = @ + 1])
    /\ UNCHANGED <<host, parent, imported, regVars, msg_id>>

\* mutant of ExitReset: msg_id may be reset before the flush of __exit__
ExitReset_BeforeFlush ==
    /\ stack # <<>>
    /\ Top.kind # "inner" /\ Top.pc \in {"exit_flush", "exit_reset"}
    /\ msg_id' = ""
    /\ stack' = SetTop([Top EXCEPT !.pc = "returned", !.res = "True"])
    /\ UNCHANGED <<host, parent, imported, regVars, bufVars>>

\* mutant of ExitReset: __exit__ returns True without resetting msg_id
ExitReset_KeepsMsgId ==
    /\ stack # <<>>
    /\ Top.kind # "inner" /\ Top.pc = "exit_reset"
    /\ stack' = SetTop([Top EXCEPT !.pc = "returned", !.res = "True"])
    /\ UNCHANGED <<host, parent, imported, regVars, msg_id, bufVars>>

\* self.msg_id = ''; return True
ExitReset ==
    /\ stack # <<>>
    /\ Top.kind # "inner" /\ Top.pc = "exit_reset"
    /\ msg_id' = ""
    /\ stack' = SetTop([Top EXCEPT !.pc = "returned", !.res = "True"])
    /\ UNCHANGED <<host, parent, imported, regVars, bufVars>>

\* the with statement ends. __exit__ returned True: any exception of the
\* body is swallowed and the code after the block runs. __exit__ raised: its
\* exception replaces the body's and leaves the block.
LeaveWith ==
    /\ stack # <<>>
    /\ Top.kind # "inner" /\ Top.pc \in {"returned", "raised"}
    /\ stack' =
          IF Top.kind = "func"
          THEN [Rest EXCEPT ![Len(Rest)] =
                  IF Top.pc = "returned"
                  THEN [@ EXCEPT !.pc = "returned", !.exc = Top.exc,
                                 !.ret = Top.ret, !.got = Top.got,
                                 !.rend = Top.rend,
                                 !.res = WrapperResult(Top)]
                  ELSE [@ EXCEPT !.pc = "raised", !.exc = Top.exc,
                                 !.ret = Top.ret, !.got = Top.got,
                                 !.rend = Top.rend,
                                 !.res = Top.res]]
          ELSE IF Top.pc = "returned" \/ Rest = <<>>
          THEN Rest
          ELSE [Rest EXCEPT ![Len(Rest)] =
                  [@ EXCEPT !.pc = "exit_render", !.exc = Top.res]]
    /\ UNCHANGED <<host, parent, imported, regVars, msg_id, bufVars>>

\* ---- specifications -------------------------------------------------------
\* the Output widget in use
Next ==
    \/ HandleIPython
    \/ NewRequest
    \/ HostFlush
    \/ \E t \in Texts : WriteStdout(t)
    \/ \E t \in Texts : WriteStderr(t)
    \/ \E t \in Texts : AppendStdout(t)
    \/ \E t \in Texts : AppendStderr(t)
    \/ \E o \in DisplayObjects : AppendDisplayData(o)
    \/ EnterWith
    \/ CallClearOutput
    \/ \E c \in BOOLEAN, a \in ArgLists : CallWrapper(c, a)
    \/ BodyEnd
    \/ \E v \in Values : FuncReturn(v)
    \/ \E e \in Exceptions : BodyRaise(e)
    \/ HostClearOutput
    \/ InnerCheck
    \/ InnerWith
    \/ InnerLeave
    \/ EnterFlush
    \/ EnterSetMsgId
    \/ ExitRender
    \/ ExitFlush
    \/ ExitReset
    \/ LeaveWith

Spec == Init /\ [][Next]_vars

\* the package being imported and the registration entry points being called
NextReg ==
    \/ HandleIPython
    \/ \E k \in Kernels \cup {"absent"} : LoadIPythonExtension(k)
    \/ \E k \in Kernels \cup {"None"} : RegisterCommTarget(k)
    \/ NewRequest

SpecReg == Init /\ [][NextReg]_vars


\* ==== properties ===========================================================
IsStdoutRecord(r) == r.output_type = "stream" /\ r.name = "stdout"
IsScoped(x) == x.scoped
InBody(i) == stack[i].kind \in {"with", "func"} /\ stack[i].pc = "body"
Exited(i) == stack[i].pc \in {"returned", "raised"}

\* C1: every text written to standard output inside a capture scope becomes
\* a stdout stream record of the buffer, in the order written. Stated on the
\* step that publishes the text, for a host whose kernel has a parent header:
\* the records the buffer gains in that step are the stdout records of the
\* texts, in order.
C1_ScopedStdoutIsCaptured ==
    [][(/\ host = "full"
        /\ stdoutBuf # <<>> /\ stdoutBuf' = <<>>
        /\ SelectSeq(stdoutBuf, IsScoped) # <<>>)
       => /\ Len(outputs') >= Len(outputs)
          /\ SelectSeq(SubSeq(outputs', Len(outputs) + 1, Len(outputs')),
                       IsStdoutRecord)
             = StreamRecords(stdoutBuf, "stdout")]_vars

\* C2: an exception raised inside a capture scope is rendered by
\* showtraceback exactly once and __exit__ returns True, whatever the host.
C2_ExceptionRenderedOnceAndSuppressed ==
    \A i \in DOMAIN stack :
        (/\ stack[i].kind \in {"with", "func"}
         /\ stack[i].exc # "None"
         /\ Exited(i))
        => /\ stack[i].pc = "returned"
           /\ stack[i].res = "True"
           /\ stack[i].rend = 1

\* C3: between __enter__ and the matching __exit__ of a capture scope,
\* msg_id is the host's current parent message id, not the empty string.
C3_CaptureActiveInsideScope ==
    host = "full" =>
        \A i \in DOMAIN stack : InBody(i) => msg_id = parent /\ msg_id # ""

\* C4 as stated: after clear_output() has run inside a capture scope, no
\* record emitted before it is in the buffer.
C4_NoRecordSurvivesClear ==
    \A i \in DOMAIN stale : ~stale[i]

\* C4 amended: the same, when the host interpreter's kernel has a parent
\* header for the scope to capture.
C4_NoRecordSurvivesCapturedClear ==
    host = "full" => \A i \in DOMAIN stale : ~stale[i]

\* a clear_output() inside a capture scope has just taken a record out of
\* the buffer
C4_Witness ==
    /\ host = "full"
    /\ Len(stack) >= 2
    /\ Top.kind = "clear" /\ Top.pc = "returned" /\ Top.removed > 0
    /\ InBody(Len(stack) - 1)
    /\ outputs = <<>>

\* C5: a wrapper made with clear_output=True has performed the clear
\* operation exactly once by the time the wrapped function's with block
\* begins, one made with clear_output=False has performed none, and the
\* wrapped function runs after __enter__ of a with block of the wrapper.
C5_WrapperClearsOnceBeforeBody ==
    \A i \in DOMAIN stack :
        /\ (stack[i].kind = "inner" /\ stack[i].pc \in {"wait", "returned", "raised"})
           => stack[i].nclr = IF stack[i].clr THEN 1 ELSE 0
        /\ (stack[i].kind = "func" /\ stack[i].pc = "body")
           => /\ i > 1
              /\ stack[i - 1].kind = "inner" /\ stack[i - 1].pc = "wait"
              /\ stack[i].fl = 1
              /\ i \in OpenScopes

C5_Witness ==
    /\ stack # <<>>
    /\ Top.kind = "func" /\ Top.pc = "body"
    /\ stack[Len(stack) - 1].clr /\ stack[Len(stack) - 1].nclr = 1

\* C6: append_stdout, append_stderr and append_display_data each replace the
\* buffer by the old records followed by the one new record of the documented
\* shape, and every record of the buffer is of one of the two shapes.
DocumentedRecords ==
    [output_type : {"stream"}, name : {"stdout", "stderr"}, text : Texts]
    \cup {[output_type |-> "display_data", data |-> FormatData(o),
           metadata |-> FormatMetadata(o)] : o \in DisplayObjects}

C6_AppendsAddOneRecordLast ==
    /\ [](\A i \in DOMAIN outputs : outputs[i] \in DocumentedRecords)
    /\ [][/\ \A t \in Texts :
               AppendStdout(t) =>
                   outputs' = outputs \o <<[output_type |-> "stream",
                                            name |-> "stdout", text |-> t]>>
          /\ \A t \in Texts :
               AppendStderr(t) =>
                   outputs' = outputs \o <<[output_type |-> "stream",
                                            name |-> "stderr", text |-> t]>>
          /\ \A o \in DisplayObjects :
               AppendDisplayData(o) =>
                   /\ Len(outputs') = Len(outputs) + 1
                   /\ SubSeq(outputs', 1, Len(outputs)) = outputs
                   /\ outputs'[Len(outputs')].output_type = "display_data"
                   /\ outputs'[Len(outputs')].data = FormatData(o)
                   /\ outputs'[Len(outputs')].metadata = FormatMetadata(o)]_vars

\* without an interpreter nothing is captured: these two records were put
\* there by append_stdout and append_display_data, in that order
C6_Witness ==
    /\ host = "none"
    /\ Len(outputs) = 2
    /\ outputs[1] = [output_type |-> "stream", name |-> "stdout", text |-> "b"]
    /\ outputs[2].output_type = "display_data"


\* C7: registration binds "ipython.widget" to Widget.handle_comm_opened on
\* the kernel's comm manager: load_ipython_extension(ip) registers once on
\* ip.kernel when ip has one and does nothing, without error, when it has
\* none; register_comm_target(kernel) registers on that kernel;
\* register_comm_target() registers on the running interpreter's kernel; the
\* import hook registers nothing when there is no interpreter.
RegisteredOn(kernel) ==
    /\ lastReg.outcome = "ok"
    /\ lastReg.added = 1
    /\ registry # <<>>
    /\ registry[Len(registry)] =
          [kernel |-> kernel, target |-> "ipython.widget",
           handler |-> "Widget.handle_comm_opened"]

C7_RegistrationBindsTarget ==
    /\ (lastReg.op = "load" /\ lastReg.arg = "absent")
       => lastReg.outcome = "ok" /\ lastReg.added = 0
    /\ (lastReg.op = "load" /\ lastReg.arg # "absent")
       => RegisteredOn(lastReg.arg)
    /\ (lastReg.op = "register" /\ lastReg.arg # "None")
       => RegisteredOn(lastReg.arg)
    /\ (lastReg.op = "register" /\ lastReg.arg = "None" /\ HasKernel)
       => RegisteredOn("hostKernel")
    /\ (lastReg.op = "import" /\ ~HasInterpreter)
       => lastReg.outcome = "ok" /\ lastReg.added = 0

C9_MsgIdEmptyOutsideScopes ==
    OpenScopes = {} => msg_id = ""

\* a wrapper made with clear_output=True, called from the top level of a
\* capturing host, has left its clear scope and then its function's scope
C9_Witness ==
    /\ host = "full"
    /\ Len(stack) = 2
    /\ stack[1].kind = "inner" /\ stack[1].clr
    /\ stack[2].kind = "func" /\ stack[2].pc = "returned"
    /\ OpenScopes = {}

\* C10: the wrapper returns the wrapped function's value, having passed it
\* the caller's arguments; when the function raises, the wrapper raises
\* nothing and returns None, the exception having been rendered.
C10_WrapperReturnsOrSwallows ==
    \A i \in DOMAIN stack :
        (stack[i].kind = "inner" /\ Exited(i))
        => /\ stack[i].pc = "returned"
           /\ stack[i].got = stack[i].args
           /\ IF stack[i].exc = "None"
              THEN stack[i].res = stack[i].ret /\ stack[i].ret \in Values
              ELSE stack[i].res = "None" /\ stack[i].rend = 1

====
